---------------------------- MODULE Spec2Model ----------------------------
(***************************************************************************)
(* checker.py of email-spoofer: the SPF / DMARC strength decision engine.  *)
(*                                                                         *)
(* The program is single threaded and recursive.  It is modelled as an     *)
(* interpreter with an explicit call stack for is_spf_record_strong (the   *)
(* only recursive function: it calls itself through                        *)
(* check_spf_redirect_mechanisms and check_spf_include_mechanisms), and a  *)
(* program counter for the __main__ block and is_dmarc_record_strong.      *)
(*                                                                         *)
(* The collaborators (emailprotectionslib, DNS) are the environment.  What *)
(* a lookup returns is chosen when the code first reads it and is kept, so *)
(* that a domain looked up twice in one evaluation answers the same.  The  *)
(* output_* calls only print; they change no state and are left out.       *)
(***************************************************************************)
EXTENDS Naturals, Sequences, FiniteSets

\* ------------------------------------------------------------- bounds
\* Total number of redirect= and include: mechanisms in the records read.
MaxDelegations == 3
\* Nested is_spf_record_strong calls the interpreter allows before it
\* raises RecursionError (CPython: 1000 frames).
RecursionLimit == 4

Domains == {"a", "b", "c"}
\* The domain given on the command line.  The code treats all domain names
\* alike, so one queried domain stands for each of them.
Queried == {"a"}

None == "None"

\* ------------------------------------------------------ SPF data model
\* spf_record.all_string: "" stands for None / no all mechanism.
AllStrings == {"", "?all", "+all", "~all", "-all"}

RECURSIVE SeqsUpTo(_, _)
SeqsUpTo(S, n) ==
    IF n = 0 THEN {<<>>}
    ELSE LET shorter == SeqsUpTo(S, n - 1)
         IN  shorter \cup {Append(s, x) : s \in {t \in shorter : Len(t) = n - 1}, x \in S}

\* What is known of a domain's SPF record: read says how much of it the
\* code has read so far ("no": never fetched), record whether from_domain
\* found one.
UnreadRecord ==
    [record |-> FALSE, read |-> "no", all_string |-> "", redirect |-> None,
     include |-> <<>>, redirect_strong |-> FALSE, include_strong |-> FALSE]

\* redirect= and include: mechanisms of one record.
Mechanisms(rec) == (IF rec.redirect = None THEN 0 ELSE 1) + Len(rec.include)

RECURSIVE SumOver(_, _)
SumOver(f, S) ==
    IF S = {} THEN 0
    ELSE LET x == CHOOSE y \in S : TRUE IN f[x] + SumOver(f, S \ {x})

UsedDelegations(z) == SumOver([d \in Domains |-> Mechanisms(z[d])], Domains)

\* ------------------------------------------------------ DMARC data model
\* The p= and sp= tags as the library hands them over: "" stands for None,
\* "monitor" for any text that is no DMARC policy.
Policies == {"", "none", "quarantine", "reject", "monitor"}
Pcts == {"", "100", "50"}
Uris == {"", "mailto:r@x"}

NoDmarc ==
    [record |-> FALSE, policy |-> "", subdomain_policy |-> "", pct |-> "",
     rua |-> "", ruf |-> ""]

DmarcRecords ==
    [record : {TRUE}, policy : Policies, subdomain_policy : Policies,
     pct : Pcts, rua : Uris, ruf : Uris]

VARIABLES
    argv,        \* sys.argv
    pc,          \* position in __main__ / is_dmarc_record_strong
    domain,      \* sys.argv[1]
    zone,        \* what the SPF lookups answer, per domain
    stack,       \* frames of is_spf_record_strong, innermost last
    fetched,     \* domains SpfRecord.from_domain was called on
    verdictOf,   \* what is_spf_record_strong returned, per domain
    spfStrong,   \* value of is_spf_record_strong(domain) in __main__
    dmarc,       \* dmarc in is_dmarc_record_strong
    dmarcFetched,\* DmarcRecord.from_domain(domain) was called
    orgDomain,   \* outcome of dmarc.get_org_domain()
    orgLookup,   \* outcome of base_record.get_org_record()
    orgRecord,   \* org_record in check_dmarc_org_policy
    dmarcStrong, \* value of is_dmarc_record_strong(domain)
    report,      \* the final output_bad / output_good message
    error        \* the exception that ended the run, if any

vars == <<argv, pc, domain, zone, stack, fetched, verdictOf, spfStrong, dmarc,
          dmarcFetched, orgDomain, orgLookup, orgRecord, dmarcStrong, report,
          error>>

spfVars == <<zone, stack, fetched, verdictOf, spfStrong>>
dmarcVars == <<dmarc, dmarcFetched, orgDomain, orgLookup, orgRecord, dmarcStrong>>

Unknown == "unknown"
Uncalled == "uncalled"
Str(b) == IF b THEN "True" ELSE "False"
NotPossible == "Spoofing not possible"
Possible == "Spoofing possible"

Init ==
    /\ argv \in {<<"checker.py">>} \cup {<<"checker.py", d>> : d \in Queried}
    /\ pc = "start"
    /\ domain = None
    /\ zone = [d \in Domains |-> UnreadRecord]
    /\ stack = <<>>
    /\ fetched = {}
    /\ verdictOf = [d \in Domains |-> Unknown]
    /\ spfStrong = FALSE
    /\ dmarc = NoDmarc
    /\ dmarcFetched = FALSE
    /\ orgDomain = Uncalled
    /\ orgLookup = Uncalled
    /\ orgRecord = NoDmarc
    /\ dmarcStrong = FALSE
    /\ report = None
    /\ error = None

\* ---------------------------------------------------------- SPF evaluator
Frame(d) == [domain |-> d, pc |-> "fetch", redirect_strength |-> FALSE, i |-> 1,
             ret |-> FALSE]

Top == stack[Len(stack)]
SetTop(f) == [stack EXCEPT ![Len(stack)] = f]
Returning(v) == SetTop([Top EXCEPT !.pc = "return", !.ret = v])

\* A variant that takes only -all for strong.
StrongAllStringHardfailOnly(all_string) ==
    IF all_string # "" THEN all_string = "-all" ELSE FALSE

\* Lines 80-92 of check_spf_all_string: the all mechanism on its own.
StrongAllString(all_string) ==
    IF all_string # ""
    THEN all_string = "~all" \/ all_string = "-all"
    ELSE FALSE

\* check_spf_include_redirect with is_spf_redirect_record_strong and
\* are_spf_include_mechanisms_strong: the library's verdicts on the
\* record's mechanisms.
check_spf_include_redirect(rec) ==
    LET redirect_tried == IF rec.redirect # None THEN rec.redirect_strong ELSE FALSE
    IN  IF ~redirect_tried THEN rec.include_strong ELSE redirect_tried

\* __main__, lines 225-226 and 240-241.
main ==
    /\ pc = "start"
    /\ IF Len(argv) < 2
       THEN /\ pc' = "usage"
            /\ error' = "IndexError"
            /\ UNCHANGED <<domain, stack>>
       ELSE /\ domain' = argv[2]
            /\ stack' = <<Frame(argv[2])>>
            /\ pc' = "spf"
            /\ UNCHANGED error
    /\ UNCHANGED <<argv, zone, fetched, verdictOf, spfStrong, report>>
    /\ UNCHANGED dmarcVars

\* What SpfRecord.from_domain(d) answers: for a domain fetched before, the
\* same again; otherwise no record, or a record with some all mechanism.
FromDomain(d) ==
    IF zone[d].read # "no"
    THEN {zone[d]}
    ELSE {[UnreadRecord EXCEPT !.read = "fetched"]}
            \cup {[UnreadRecord EXCEPT !.read = "fetched", !.record = TRUE,
                                       !.all_string = a] : a \in AllStrings}

\* is_spf_record_strong, lines 101-106 and 117-119: fetch the record.
is_spf_record_strong ==
    /\ pc = "spf" /\ stack # <<>> /\ Top.pc = "fetch"
    /\ fetched' = fetched \cup {Top.domain}
    /\ \E spf_record \in FromDomain(Top.domain) :
          /\ zone' = [zone EXCEPT ![Top.domain] = spf_record]
          /\ stack' = IF spf_record.record
                      THEN SetTop([Top EXCEPT !.pc = "all"])
                      ELSE Returning(FALSE)
    /\ UNCHANGED <<argv, pc, domain, verdictOf, spfStrong, report, error>>
    /\ UNCHANGED dmarcVars

\* The mechanisms a record may carry with `budget` mechanisms left.
Delegations(budget) ==
    {m \in [redirect : Domains \cup {None}, include : SeqsUpTo(Domains, budget)] :
        Mechanisms(m) <= budget}

\* The library's verdicts on a record's mechanisms
\* (_is_redirect_mechanism_strong, _are_include_mechanisms_strong): the
\* first is asked only when there is a redirect, the second only when the
\* first did not say strong; a record without include mechanisms has no
\* strong include mechanism.
LibraryVerdicts(m) ==
    {v \in [redirect_strong : BOOLEAN, include_strong : BOOLEAN] :
        /\ v.redirect_strong => m.redirect # None
        /\ v.include_strong => (~v.redirect_strong /\ m.include # <<>>)}

\* is_spf_record_strong line 108: check_spf_all_string, lines 77-97.
check_spf_all_string ==
    /\ pc = "spf" /\ stack # <<>> /\ Top.pc = "all"
    /\ LET d == Top.domain IN
       IF StrongAllString(zone[d].all_string)
       THEN /\ stack' = Returning(TRUE)
            /\ UNCHANGED zone
       ELSE /\ IF zone[d].read = "fetched"
               THEN \E m \in Delegations(MaxDelegations - UsedDelegations(zone)) :
                    \E v \in LibraryVerdicts(m) :
                       zone' = [zone EXCEPT ![d].read = "mechanisms",
                                            ![d].redirect = m.redirect,
                                            ![d].include = m.include,
                                            ![d].redirect_strong = v.redirect_strong,
                                            ![d].include_strong = v.include_strong]
               ELSE UNCHANGED zone
            /\ stack' = IF check_spf_include_redirect(zone'[d])
                        THEN Returning(TRUE)
                        ELSE SetTop([Top EXCEPT !.pc = "redirect"])
    /\ UNCHANGED <<argv, pc, domain, fetched, verdictOf, spfStrong, report, error>>
    /\ UNCHANGED dmarcVars

\* A call of is_spf_record_strong(d) from the frame on top, which then waits
\* at `waiting`; past the interpreter's limit the call raises RecursionError,
\* which nothing catches.
Call(d, waiting) ==
    IF Len(stack) >= RecursionLimit
    THEN /\ pc' = "crashed"
         /\ error' = "RecursionError"
         /\ UNCHANGED stack
    ELSE /\ stack' = Append(SetTop([Top EXCEPT !.pc = waiting]), Frame(d))
         /\ UNCHANGED <<pc, error>>

\* is_spf_record_strong line 111: check_spf_redirect_mechanisms, lines 17-24.
check_spf_redirect_mechanisms ==
    /\ pc = "spf" /\ stack # <<>> /\ Top.pc = "redirect"
    /\ LET redirect_domain == zone[Top.domain].redirect IN
       IF redirect_domain # None
       THEN Call(redirect_domain, "redirect_called")
       ELSE /\ stack' = SetTop([Top EXCEPT !.pc = "include", !.redirect_strength = FALSE])
            /\ UNCHANGED <<pc, error>>
    /\ UNCHANGED <<argv, domain, zone, fetched, verdictOf, spfStrong, report>>
    /\ UNCHANGED dmarcVars

\* is_spf_record_strong lines 112-120: check_spf_include_mechanisms, lines
\* 27-37, at the i-th include domain; after the last one the record is
\* strong if the redirect was.
check_spf_include_mechanisms ==
    /\ pc = "spf" /\ stack # <<>> /\ Top.pc = "include"
    /\ LET include_domain_list == zone[Top.domain].include IN
       IF Top.i <= Len(include_domain_list)
       THEN Call(include_domain_list[Top.i], "include_called")
       ELSE /\ stack' = Returning(Top.redirect_strength)
            /\ UNCHANGED <<pc, error>>
    /\ UNCHANGED <<argv, domain, zone, fetched, verdictOf, spfStrong, report>>
    /\ UNCHANGED dmarcVars

\* A variant whose include loop starts over after a weak include domain.
ResumeFromFirstInclude(caller, v) ==
    IF caller.pc = "redirect_called"
    THEN [caller EXCEPT !.pc = "include", !.redirect_strength = v]
    ELSE IF v
         THEN [caller EXCEPT !.pc = "return", !.ret = TRUE]
         ELSE [caller EXCEPT !.pc = "include", !.i = 1]

\* The caller's frame once the call it waits for has returned v: line 22
\* hands v to line 111, lines 32-35 return True on the first strong include.
Resume(caller, v) ==
    IF caller.pc = "redirect_called"
    THEN [caller EXCEPT !.pc = "include", !.redirect_strength = v]
    ELSE IF v
         THEN [caller EXCEPT !.pc = "return", !.ret = TRUE]
         ELSE [caller EXCEPT !.pc = "include", !.i = caller.i + 1]

\* return strong_spf_record (line 120) of a nested call.
spf_return ==
    /\ pc = "spf" /\ Len(stack) >= 2 /\ Top.pc = "return"
    /\ verdictOf' = [verdictOf EXCEPT ![Top.domain] = Str(Top.ret)]
    /\ stack' = [SubSeq(stack, 1, Len(stack) - 1)
                    EXCEPT ![Len(stack) - 1] = Resume(stack[Len(stack) - 1], Top.ret)]
    /\ UNCHANGED <<argv, pc, domain, zone, fetched, spfStrong, report, error>>
    /\ UNCHANGED dmarcVars

\* return strong_spf_record (line 120) to __main__, line 235.
spf_result ==
    /\ pc = "spf" /\ Len(stack) = 1 /\ Top.pc = "return"
    /\ verdictOf' = [verdictOf EXCEPT ![Top.domain] = Str(Top.ret)]
    /\ spfStrong' = Top.ret
    /\ stack' = <<>>
    /\ pc' = "spf_returned"
    /\ UNCHANGED <<argv, domain, zone, fetched, report, error>>
    /\ UNCHANGED dmarcVars

\* -------------------------------------------------------- DMARC evaluator
\* A variant that takes only reject for strong.
check_dmarc_policy_reject_only(dmarc_record) ==
    IF dmarc_record.policy # "" THEN dmarc_record.policy = "reject" ELSE FALSE

\* check_dmarc_policy, lines 153-165.
check_dmarc_policy(dmarc_record) ==
    IF dmarc_record.policy # ""
    THEN dmarc_record.policy = "reject" \/ dmarc_record.policy = "quarantine"
    ELSE FALSE

\* A variant that asks the organizational policy first and the subdomain
\* policy only when there is none.
OrgPolicyStrongPolicyFirst(org_record) ==
    IF org_record.policy # ""
    THEN check_dmarc_policy(org_record)
    ELSE org_record.subdomain_policy = "quarantine"
            \/ org_record.subdomain_policy = "reject"

\* check_dmarc_org_policy, lines 177-188: the verdict of a found
\* organizational record.
OrgPolicyStrong(org_record) ==
    IF org_record.subdomain_policy # ""
    THEN IF org_record.subdomain_policy = "none"
         THEN FALSE
         ELSE org_record.subdomain_policy = "quarantine"
                \/ org_record.subdomain_policy = "reject"
    ELSE check_dmarc_policy(org_record)

\* The SpfRecord objects are locals of is_spf_record_strong: nothing of them
\* is left once it has returned to line 235.
SpfLocalsGone ==
    /\ zone' = [d \in Domains |-> UnreadRecord]
    /\ fetched' = {}
    /\ verdictOf' = [d \in Domains |-> Unknown]

\* A variant that asks for one strong record only.
SpoofReportEither(spf, dmarc_strong) ==
    IF spf \/ dmarc_strong THEN NotPossible ELSE Possible

\* The final message, lines 235-238.
SpoofReport(spf, dmarc_strong) ==
    IF spf /\ dmarc_strong THEN NotPossible ELSE Possible

\* Line 235, `is_spf_record_strong(domain) and ...`: Python's `and` evaluates
\* its right operand only when the left one is true.
spf_and_dmarc ==
    /\ pc = "spf_returned"
    /\ IF spfStrong
       THEN /\ pc' = "dmarc"
            /\ UNCHANGED report
       ELSE /\ pc' = "done"
            /\ report' = SpoofReport(spfStrong, FALSE)
    /\ SpfLocalsGone
    /\ UNCHANGED <<argv, domain, stack, spfStrong, error>>
    /\ UNCHANGED dmarcVars

\* is_dmarc_record_strong lines 202-204: get_dmarc_record, lines 123-128.
get_dmarc_record ==
    /\ pc = "dmarc"
    /\ \E r \in DmarcRecords \cup {NoDmarc} : dmarc' = r
    /\ dmarcFetched' = TRUE
    /\ dmarcStrong' = FALSE
    /\ pc' = "dmarc_fetched"
    /\ UNCHANGED <<argv, domain, report, error, orgDomain, orgLookup, orgRecord>>
    /\ UNCHANGED spfVars

\* is_dmarc_record_strong lines 206-219: the record's own policy
\* (check_dmarc_extras, lines 139-150, only prints), or the organizational
\* domain.  dmarc.get_org_domain() is called outside any try block.
is_dmarc_record_strong ==
    /\ pc = "dmarc_fetched"
    /\ IF dmarc.record
       THEN /\ dmarcStrong' = check_dmarc_policy(dmarc)
            /\ pc' = "dmarc_returned"
            /\ UNCHANGED <<orgDomain, error>>
       ELSE \E o \in {"absent", "resolved", "raises"} :
            /\ orgDomain' = o
            /\ pc' = CASE o = "absent" -> "dmarc_returned"
                       [] o = "resolved" -> "dmarc_org"
                       [] o = "raises" -> "crashed"
            /\ error' = IF o = "raises" THEN "get_org_domain raised" ELSE error
            /\ UNCHANGED dmarcStrong
    /\ UNCHANGED <<argv, domain, report, dmarc, dmarcFetched, orgLookup, orgRecord>>
    /\ UNCHANGED spfVars

\* check_dmarc_org_policy, lines 168-198.
check_dmarc_org_policy ==
    /\ pc = "dmarc_org"
    /\ \/ \E r \in DmarcRecords :
            /\ orgLookup' = "record"
            /\ orgRecord' = r
            /\ dmarcStrong' = OrgPolicyStrong(r)
       \/ \E o \in {"none", "OrgDomainException", "Exception"} :
            /\ orgLookup' = o
            /\ orgRecord' = NoDmarc
            /\ dmarcStrong' = FALSE
    /\ pc' = "dmarc_returned"
    /\ UNCHANGED <<argv, domain, report, error, dmarc, dmarcFetched, orgDomain>>
    /\ UNCHANGED spfVars

\* Lines 235-238 once both calls have returned.
verdict ==
    /\ pc = "dmarc_returned"
    /\ report' = SpoofReport(spfStrong, dmarcStrong)
    /\ pc' = "done"
    /\ UNCHANGED <<argv, domain, error>>
    /\ UNCHANGED spfVars
    /\ UNCHANGED dmarcVars

Next ==
    \/ main
    \/ is_spf_record_strong
    \/ check_spf_all_string
    \/ check_spf_redirect_mechanisms
    \/ check_spf_include_mechanisms
    \/ spf_return
    \/ spf_result
    \/ spf_and_dmarc
    \/ get_dmarc_record
    \/ is_dmarc_record_strong
    \/ check_dmarc_org_policy
    \/ verdict

Spec == Init /\ [][Next]_vars

\* The program is one thread that runs until it ends: a step that can be
\* taken is taken.
FairSpec == Spec /\ WF_vars(Next)

\* ------------------------------------------------------------ the claims
Strict == {"~all", "-all"}
StrongPolicies == {"quarantine", "reject"}
Range(q) == {q[k] : k \in 1..Len(q)}

\* The domains a record that has been read delegates to.
Edges(d) ==
    IF zone[d].read = "mechanisms"
    THEN ({zone[d].redirect} \ {None}) \cup Range(zone[d].include)
    ELSE {}

RECURSIVE ReachFrom(_)
ReachFrom(S) ==
    LET more == S \cup UNION {Edges(d) : d \in S}
    IN  IF more = S THEN S ELSE ReachFrom(more)

\* A redirect/include cycle among the domains reachable from the queried one.
CycleReachable ==
    \E x \in ReachFrom({domain} \cap Domains) : x \in ReachFrom(Edges(x))

DmarcReturned == pc \in {"dmarc_returned", "done"} /\ dmarcFetched

\* C1: whenever the run ends with a verdict, "Spoofing not possible" is
\* reported exactly when is_spf_record_strong and is_dmarc_record_strong both
\* returned true, and "Spoofing possible" in every other case.
C1_VerdictIsConjunction ==
    pc = "done" =>
        /\ report \in {NotPossible, Possible}
        /\ (report = NotPossible) <=> (spfStrong /\ dmarcFetched /\ dmarcStrong)

C1_Witness == pc = "done" /\ report = NotPossible /\ dmarc.policy = "quarantine"

\* C2: in every run that ends with a verdict the DMARC record of the domain
\* was fetched, also when is_spf_record_strong returned false.
C2_BothEvaluatorsInvoked == pc = "done" => dmarcFetched

\* C3: no unbounded recursion aborts the run: is_spf_record_strong never
\* ends in a RecursionError, also when redirect/include targets lead back to
\* a domain under evaluation.
C3_NoUnboundedRecursion == ~(pc = "crashed" /\ error = "RecursionError")

\* C4: with no DMARC record of its own, every failure of the organizational
\* chain (get_org_domain finding nothing or raising, get_org_record raising
\* or finding nothing) is caught: no exception ends the run, the DMARC
\* verdict is false and the report is "Spoofing possible".
C4_OrgFailureCaught ==
    (/\ dmarcFetched /\ ~dmarc.record
     /\ \/ orgDomain \in {"absent", "raises"}
        \/ orgLookup \in {"none", "OrgDomainException", "Exception"})
    => /\ pc # "crashed"
       /\ ~dmarcStrong
       /\ pc = "done" => report = Possible

\* C5: once the evaluation of the queried domain A has ended, if A's record
\* redirects to B and is_spf_record_strong(B) returned true, then
\* is_spf_record_strong(A) returned true, whatever A's all mechanism and
\* include domains are.
C5_RedirectTransitive ==
    \A B \in Domains :
        (/\ pc \in {"spf_returned", "crashed"}
         /\ zone[domain].record /\ zone[domain].redirect = B
         /\ verdictOf[B] = "True")
        => (pc = "spf_returned" /\ spfStrong)

\* C6: for a queried domain A with a record, a weak all mechanism, no
\* redirect and include domains, once the evaluation of A has ended
\* is_spf_record_strong(A) has returned, with true if one of the included
\* domains is SPF-strong and with false if none is.  Stated for the records
\* whose mechanisms the library does not report strong, where the include
\* domains are all that is left to decide.
C6_IncludeExistential ==
    (/\ pc \in {"spf_returned", "crashed"}
     /\ zone[domain].record /\ zone[domain].read = "mechanisms"
     /\ zone[domain].redirect = None /\ zone[domain].include # <<>>
     /\ ~zone[domain].include_strong)
    => /\ pc = "spf_returned"
       /\ spfStrong <=> (\E x \in Range(zone[domain].include) : verdictOf[x] = "True")

\* C7: a domain without an SPF record is weak; a domain whose record has no
\* redirect and no include domains is strong exactly when its all mechanism
\* is -all or ~all.
C7_AllStringDecides ==
    \A d \in Domains :
        verdictOf[d] # Unknown =>
            /\ ~zone[d].record => verdictOf[d] = "False"
            /\ (zone[d].record /\ zone[d].redirect = None /\ zone[d].include = <<>>)
               => (verdictOf[d] = "True" <=> zone[d].all_string \in Strict)

C7_Witness ==
    /\ pc = "spf_returned" /\ ~spfStrong
    /\ zone[domain].record /\ zone[domain].read = "mechanisms"
    /\ zone[domain].all_string = "+all"
    /\ zone[domain].redirect = None /\ zone[domain].include = <<>>

\* C8: with no DMARC record of its own and an organizational record found,
\* the verdict is that of the subdomain policy when it is set (strong
\* exactly for quarantine and reject, whatever the policy), and that of the
\* policy when it is not.
C8_OrgPolicy ==
    (DmarcReturned /\ ~dmarc.record /\ orgLookup = "record")
    => dmarcStrong = (IF orgRecord.subdomain_policy # ""
                      THEN orgRecord.subdomain_policy \in StrongPolicies
                      ELSE orgRecord.policy \in StrongPolicies)

C8_Witness ==
    /\ pc = "done" /\ ~dmarc.record /\ orgLookup = "record"
    /\ orgRecord.policy = "none" /\ orgRecord.subdomain_policy = "reject"
    /\ dmarcStrong

\* C9: with a DMARC record of its own, the verdict is strong exactly when
\* its policy is quarantine or reject, whatever pct, rua, ruf and the
\* subdomain policy are, and the organizational domain is not consulted.
C9_OwnPolicyOnly ==
    (DmarcReturned /\ dmarc.record)
    => /\ dmarcStrong = (dmarc.policy \in StrongPolicies)
       /\ orgDomain = Uncalled /\ orgLookup = Uncalled

C9_Witness ==
    /\ pc = "done" /\ dmarc.record /\ dmarcStrong
    /\ dmarc.policy = "quarantine" /\ dmarc.subdomain_policy = "none"
    /\ dmarc.pct = "50" /\ dmarc.rua # "" /\ dmarc.ruf # ""

C10_Safety ==
    /\ ~CycleReachable =>
          /\ error # "RecursionError"
          /\ Len(stack) <= Cardinality(Domains)
          /\ \A j, k \in 1..Len(stack) : stack[j].domain = stack[k].domain => j = k
    /\ pc = "spf_returned" => spfStrong \in BOOLEAN
    /\ fetched \subseteq ReachFrom({domain} \cap Domains)
    /\ (pc = "spf_returned" /\ zone[domain].record
            /\ zone[domain].all_string \in Strict)
       => (spfStrong /\ fetched = {domain})

=============================================================================
